---- MODULE Spec2Model ----
(***************************************************************************)
(* Model of tutorial_perceptiveModels.cpp: main, and the ExampleModule     *)
(* handlers configure, updateModule and close that RFModule::runModule     *)
(* drives.  Joint positions are fixed-point numbers in tenths of a degree  *)
(* (Scale), so that the 10% margin of integer-degree limits is exact.      *)
(***************************************************************************)
EXTENDS Integers, Sequences, FiniteSets

VARIABLES
    pc,          \* position of main: "main", "configure", "running", "configFailed", "closed", "done"
    rf,          \* the ResourceFinder options "finger" and "modelType"
    fingerName,  \* ExampleModule::fingerName
    joint,       \* ExampleModule::joint
    min,         \* ExampleModule::min (tenths of a degree)
    max,         \* ExampleModule::max (tenths of a degree)
    val,         \* ExampleModule::val, a pointer: "min" (&min), "max" (&max) or "unset"
    calibrate,   \* ExampleModule::calibrate
    model,       \* ExampleModule::model: "unset", "springy", "tactile" or "deleted"
    driver,      \* ExampleModule::driver: "closed" or "open"
    limits,      \* the pair getLimits returned (degrees), <<0, 0>> before configure
    node,        \* calibration state of the model's node of fingerName
    calls,       \* the adapter, node and model calls of the last handler, in order
    cmds,        \* the targets of all positionMove calls so far, in order
    opens,       \* number of successful driver.open calls
    ioFailed,    \* some driver.open, getEncoder or positionMove has failed
    ticks,       \* number of updateModule calls so far
    exitCode     \* value main returned, NoExit while main has not returned

vars == <<pc, rf, fingerName, joint, min, max, val, calibrate, model, driver,
          limits, node, calls, cmds, opens, ioFailed, ticks, exitCode>>

----------------------------------------------------------------------------
(* Bounds and input sets *)

MaxTicks == 4

FingerArgs == {"thumb", "index", "middle", "ring", "little", "pinky"}

ModelTypeArgs == {"springy", "tactile", "fuzzy"}

\* joint limits (degrees) the control board may report, min < max
LimitPairs == {<<0, 90>>, <<0, 5>>, <<-20, 40>>}

NoExit == -1

NoJoint == -1

----------------------------------------------------------------------------
(* Pure parts of the code *)

Scale == 10

Abs(x) == IF x < 0 THEN -x ELSE x

JointOfRingBug(f) ==
    IF f = "thumb" THEN 10
    ELSE IF f = "index" THEN 12
    ELSE IF f = "middle" THEN 14
    ELSE IF f = "ring" THEN 16
    ELSE IF f = "little" THEN 15
    ELSE NoJoint

\* the if/else chain of configure; NoJoint stands for the "unknown finger" branch
JointOf(f) ==
    IF f = "thumb" THEN 10
    ELSE IF f = "index" THEN 12
    ELSE IF f = "middle" THEN 14
    ELSE IF f = "ring" THEN 15
    ELSE IF f = "little" THEN 15
    ELSE NoJoint

\* setRefSpeed argument of the calibration tick
CruiseSpeed(f) == IF f = "ring" \/ f = "little" THEN 60 ELSE 30

\* margin=0.1*(max-min), in tenths of a degree, for limits in degrees
Margin(mn, mx) == mx - mn

SafeMinNoMargin(mn, mx) == Scale * mn

\* min=min+margin
SafeMin(mn, mx) == Scale * mn + Margin(mn, mx)

\* max=max-margin
SafeMax(mn, mx) == Scale * mx - Margin(mn, mx)

InitialValMax == "max"

\* val=&min
InitialVal == "min"

Deref(p, mn, mx) == IF p = "min" THEN mn ELSE mx

ToggleStuck(p) == "max"

ToggleToMin(p) == "min"

\* val==&min?val=&max:val=&min
Toggle(p) == IF p = "min" THEN "max" ELSE "min"

FlipThreshold == 5 * Scale

NearInclusive(target, fb) == Abs(target - fb) <= FlipThreshold

NearOneSided(target, fb) == target - fb < FlipThreshold

\* fabs(*val-fb)<5.0
Near(target, fb) == Abs(target - fb) < FlipThreshold

\* value RFModule::runModule(rf) returns when configure returns false
RunModuleConfigureFailed == 1

\* value RFModule::runModule(rf) returns after the loop was stopped and close ran
RunModuleStopped == 0

\* one call made by a handler: op, the joint it addresses (NoJoint for the
\* node, the model and the driver itself), the finger it names ("" if none),
\* its numeric argument or result (0 if none), and whether it succeeded
Call(op, j, f, arg, ok) == [op |-> op, joint |-> j, finger |-> f, arg |-> arg, ok |-> ok]

\* encoder values the joint can show (and an unwritten fb can hold), in tenths
FbValues(mn, mx) ==
    {mn, mx, mn + FlipThreshold - 1, mn + FlipThreshold,
     mx - FlipThreshold, mx - FlipThreshold + 1, (mn + mx) \div 2}

----------------------------------------------------------------------------
(* State after construction: ExampleModule() : calibrate(true) *)

Init ==
    /\ pc = "main"
    /\ rf \in [finger : FingerArgs, modelType : ModelTypeArgs]
    /\ fingerName = ""
    /\ joint = NoJoint
    /\ min = 0
    /\ max = 0
    /\ val = "unset"
    /\ calibrate = TRUE
    /\ model = "unset"
    /\ driver = "closed"
    /\ limits = <<0, 0>>
    /\ node = "uncalibrated"
    /\ calls = <<>>
    /\ cmds = <<>>
    /\ opens = 0
    /\ ioFailed = FALSE
    /\ ticks = 0
    /\ exitCode = NoExit

----------------------------------------------------------------------------
(* main up to mod.runModule(rf) *)

main ==
    /\ pc = "main"
    /\ \E networkOk \in BOOLEAN :
          IF networkOk
          THEN /\ pc' = "configure"
               /\ exitCode' = exitCode
          ELSE /\ pc' = "done"
               /\ exitCode' = 1
    /\ UNCHANGED <<rf, fingerName, joint, min, max, val, calibrate, model, driver,
                   limits, node, calls, cmds, opens, ioFailed, ticks>>

----------------------------------------------------------------------------
(* ExampleModule::configure, called by runModule(rf) *)

configure ==
    /\ pc = "configure"
    /\ fingerName' = rf.finger
    /\ IF JointOf(rf.finger) = NoJoint
       THEN \* unknown finger: return false before the driver is touched
            /\ pc' = "configFailed"
            /\ calls' = <<>>
            /\ UNCHANGED <<joint, min, max, val, model, driver, limits, opens, ioFailed>>
       ELSE
            /\ joint' = JointOf(rf.finger)
            /\ \E openOk \in BOOLEAN :
                  IF ~openOk
                  THEN \* driver.open failed: return false
                       /\ pc' = "configFailed"
                       /\ calls' = <<Call("open", NoJoint, "", 0, FALSE)>>
                       /\ ioFailed' = TRUE
                       /\ UNCHANGED <<min, max, val, model, driver, limits, opens>>
                  ELSE
                       /\ driver' = "open"
                       /\ opens' = opens + 1
                       /\ ioFailed' = ioFailed
                       /\ \E lim \in LimitPairs, fromPropertyOk \in BOOLEAN :
                             /\ limits' = lim
                             /\ min' = SafeMin(lim[1], lim[2])
                             /\ max' = SafeMax(lim[1], lim[2])
                             /\ val' = InitialVal
                             /\ LET opened == <<Call("open", NoJoint, "", 0, TRUE),
                                                Call("getLimits", joint', "", 0, TRUE)>>
                                IN  IF rf.modelType \notin {"springy", "tactile"}
                                    THEN \* unknown model type: return false
                                         /\ pc' = "configFailed"
                                         /\ model' = model
                                         /\ calls' = opened
                                    ELSE IF fromPropertyOk
                                    THEN /\ pc' = "running"
                                         /\ model' = rf.modelType
                                         /\ calls' = Append(opened,
                                               Call("fromProperty", NoJoint, "", 0, TRUE))
                                    ELSE \* delete model; return false
                                         /\ pc' = "configFailed"
                                         /\ model' = "deleted"
                                         /\ calls' = Append(opened,
                                               Call("fromProperty", NoJoint, "", 0, FALSE))
    /\ UNCHANGED <<rf, calibrate, node, cmds, ticks, exitCode>>

----------------------------------------------------------------------------
(* ExampleModule::updateModule, called by runModule every getPeriod() *)

CalibrateStaysSet == TRUE

\* calibrate=false
CalibrateAfterFirstTick == FALSE

CalibrationCallsMoveFirst(cal, acc, spd, mv) == <<cal, mv, acc, spd>>

\* the order of the calls of the first tick
CalibrationCalls(cal, acc, spd, mv) == <<cal, acc, spd, mv>>

\* the first tick: if (calibrate) { ... }
CalibrationTick ==
    \E calibrateOk \in BOOLEAN, moveOk \in BOOLEAN :
       /\ node' = IF calibrateOk THEN "ready" ELSE node
       /\ calibrate' = CalibrateAfterFirstTick
       /\ calls' = CalibrationCalls(
                     Call("calibrate", NoJoint, fingerName, 0, calibrateOk),
                     Call("setRefAcceleration", joint, "", 1000000000, TRUE),
                     Call("setRefSpeed", joint, "", CruiseSpeed(fingerName), TRUE),
                     Call("positionMove", joint, "", Deref(val, min, max), moveOk))
       /\ ioFailed' = (ioFailed \/ ~moveOk)
       /\ val' = val

NodeCallsIgnoringNull(nodeFound, f, sensorOk, ready) ==
    <<Call("getNode", NoJoint, f, 0, nodeFound),
      Call("getSensorsData", NoJoint, f, 0, sensorOk),
      Call("getOutput", NoJoint, f, 0, ready),
      Call("report", NoJoint, f, 0, TRUE)>>

\* if (Node *finger=model->getNode(fingerName)) { getSensorsData; getOutput; printf }
NodeCalls(nodeFound, f, sensorOk, ready) ==
    IF nodeFound
    THEN <<Call("getNode", NoJoint, f, 0, TRUE),
           Call("getSensorsData", NoJoint, f, 0, sensorOk),
           Call("getOutput", NoJoint, f, 0, ready),
           Call("report", NoJoint, f, 0, TRUE)>>
    ELSE <<Call("getNode", NoJoint, f, 0, FALSE)>>

ScanningCallsEncoderFirst(nodeCalls, encoderCalls, moveCalls) ==
    encoderCalls \o nodeCalls \o moveCalls

\* the order of the calls of a later tick
ScanningCalls(nodeCalls, encoderCalls, moveCalls) ==
    nodeCalls \o encoderCalls \o moveCalls

\* every later tick: else { ... }
ScanningTick ==
    \E nodeFound \in BOOLEAN, sensorOk \in BOOLEAN, encoderOk \in BOOLEAN,
       fb \in FbValues(min, max), moveOk \in BOOLEAN :
       LET nodeCalls == NodeCalls(nodeFound, fingerName, sensorOk, node = "ready")
           \* fb holds the encoder if getEncoder succeeded, else whatever it held
           encoderCalls == <<Call("getEncoder", joint, "", fb, encoderOk)>>
           flip == Near(Deref(val, min, max), fb)
           target == Deref(Toggle(val), min, max)
       IN  /\ node' = node
           /\ calibrate' = calibrate
           /\ IF flip
              THEN /\ val' = Toggle(val)
                   /\ calls' = ScanningCalls(nodeCalls, encoderCalls,
                                  <<Call("positionMove", joint, "", target, moveOk)>>)
                   /\ ioFailed' = (ioFailed \/ ~encoderOk \/ ~moveOk)
              ELSE /\ val' = val
                   /\ calls' = ScanningCalls(nodeCalls, encoderCalls, <<>>)
                   /\ ioFailed' = (ioFailed \/ ~encoderOk)

\* the targets of the positionMove calls in a handler's calls, in order
RECURSIVE Moves(_)
Moves(cs) ==
    IF cs = <<>> THEN <<>>
    ELSE (IF Head(cs).op = "positionMove" THEN <<Head(cs).arg>> ELSE <<>>) \o Moves(Tail(cs))

updateModule ==
    /\ pc = "running"
    /\ ticks < MaxTicks
    /\ ticks' = ticks + 1
    /\ IF calibrate THEN CalibrationTick ELSE ScanningTick
    /\ cmds' = cmds \o Moves(calls')
    /\ UNCHANGED <<pc, rf, fingerName, joint, min, max, model, driver, limits,
                   opens, exitCode>>

----------------------------------------------------------------------------
(* ExampleModule::close, called by runModule when the module is stopped *)

DriverLeftAsIs(d) == d

\* driver.close()
DriverAfterClose(d) == "closed"

CloseCallsNoTree ==
    <<Call("driverClose", NoJoint, "", 0, TRUE)>>

\* driver.close(); model->toProperty(options); printf("model options: ...")
CloseCalls ==
    <<Call("driverClose", NoJoint, "", 0, TRUE),
      Call("toProperty", NoJoint, "", 0, TRUE),
      Call("printModel", NoJoint, "", 0, TRUE)>>

close ==
    /\ pc = "running"
    /\ pc' = "closed"
    /\ driver' = DriverAfterClose(driver)
    /\ calls' = CloseCalls
    /\ UNCHANGED <<rf, fingerName, joint, min, max, val, calibrate, model, limits,
                   node, cmds, opens, ioFailed, ticks, exitCode>>

----------------------------------------------------------------------------
(* return mod.runModule(rf): the value runModule returned becomes the exit  *)
(* code and mod is destroyed, and with it its member PolyDriver driver,    *)
(* whose destructor closes the device if it is still open.                 *)

\* ~PolyDriver()
DriverAfterDestructor(d) == "closed"

mainReturn ==
    /\ pc \in {"configFailed", "closed"}
    /\ pc' = "done"
    /\ exitCode' = IF pc = "configFailed" THEN RunModuleConfigureFailed ELSE RunModuleStopped
    /\ driver' = DriverAfterDestructor(driver)
    /\ UNCHANGED <<rf, fingerName, joint, min, max, val, calibrate, model, limits,
                   node, calls, cmds, opens, ioFailed, ticks>>

\* the last MaxTicks entries of a sequence
RECURSIVE LastMoves(_)
LastMoves(q) == IF Len(q) > MaxTicks THEN LastMoves(Tail(q)) ELSE q

\* updateModule without the bookkeeping that grows for ever: the same handler,
\* with the ticks not counted and cmds keeping only the last MaxTicks
\* targets, so that a session that is never stopped has finitely many states
updateModuleSteady ==
    /\ pc = "running"
    /\ ticks' = ticks
    /\ IF calibrate THEN CalibrationTick ELSE ScanningTick
    /\ cmds' = LastMoves(cmds \o Moves(calls'))
    /\ UNCHANGED <<pc, rf, fingerName, joint, min, max, model, driver, limits,
                   opens, exitCode>>

----------------------------------------------------------------------------

Next == main \/ configure \/ updateModule \/ close \/ mainReturn

Spec == Init /\ [][Next]_vars

\* the session with its ticks going on for ever: runModule calls updateModule
\* every getPeriod() seconds for as long as the module is not stopped
LiveNext == main \/ configure \/ updateModuleSteady \/ close \/ mainReturn

\* the sessions of two of the fingers, one of each cruise speed
LiveInit == Init /\ rf.finger \in {"index", "ring"} /\ rf.modelType = "springy"

LiveSpec == LiveInit /\ [][LiveNext]_vars /\ WF_vars(updateModuleSteady)

----------------------------------------------------------------------------
(* Vocabulary of the claims *)

\* the safe range, computed from the limits getLimits returned
Lo == Scale * limits[1] + (limits[2] - limits[1])

Hi == Scale * limits[2] - (limits[2] - limits[1])

CallsOf(op) == {i \in DOMAIN calls : calls[i].op = op}

AdapterOps == {"getLimits", "setRefAcceleration", "setRefSpeed", "positionMove", "getEncoder"}

\* the last handler was a scanning tick, and fb is what it read
ScannedWith(fb) == \E i \in CallsOf("getEncoder") : calls[i].arg = fb

----------------------------------------------------------------------------
\* C1: every target passed to positionMove, on the calibration tick and on
\* every scanning tick, lies in [min+0.1*(max-min), max-0.1*(max-min)] of the
\* limits getLimits returned, and is one of the two endpoints lo, hi that
\* configure stored in min and max.
C1_TargetsInSafeRange ==
    /\ \A i \in DOMAIN cmds :
          /\ Lo <= cmds[i] /\ cmds[i] <= Hi
          /\ cmds[i] \in {Lo, Hi}
    /\ \A i \in CallsOf("positionMove") : calls[i].arg \in {Lo, Hi}
    /\ pc \in {"running", "closed"} => (min = Lo /\ max = Hi /\ Lo < Hi)

C1_Witness ==
    /\ limits = <<-20, 40>>
    /\ cmds = <<-140, 340, -140>>

\* C2: any two consecutive positionMove commands carry different targets:
\* lo, hi, lo, ... so no target is commanded twice in a row.
C2_TargetsAlternate ==
    /\ \A i \in DOMAIN cmds : cmds[i] = IF i % 2 = 1 THEN Lo ELSE Hi
    /\ \A i \in 1..(Len(cmds) - 1) : cmds[i] # cmds[i + 1]

C2_Witness ==
    /\ Len(cmds) >= 4
    /\ limits = <<0, 5>>

\* C3: the first target commanded is lo, on the first tick; the second is hi,
\* and it is commanded on the first scanning tick whose encoder value is
\* within 5 degrees of lo, on no earlier tick and on no later one.
C3_FirstLoThenHi ==
    /\ [](/\ (ticks >= 1) = (Len(cmds) >= 1)
          /\ Len(cmds) >= 1 => cmds[1] = Lo
          /\ Len(cmds) >= 2 => cmds[2] = Hi)
    /\ [][(Len(cmds) = 1 /\ ticks' = ticks + 1) =>
             ((Len(cmds') = 2) =
                 (\E i \in DOMAIN calls' :
                     /\ calls'[i].op = "getEncoder"
                     /\ calls'[i].arg - Lo < 5 * Scale
                     /\ Lo - calls'[i].arg < 5 * Scale))]_vars

C3_Witness ==
    /\ limits = <<0, 90>>
    /\ cmds = <<90, 810>>
    /\ ticks = 3
    /\ ScannedWith(90 + 49)

\* C4: configure resolves thumb=10, index=12, middle=14, ring=15, little=15;
\* the calibration tick sets cruise speed 60 for ring and little and 30 for
\* the others; every Joint I/O call addresses that one joint.
C4_JointAndSpeed ==
    LET j == CASE fingerName = "thumb" -> 10
               [] fingerName = "index" -> 12
               [] fingerName = "middle" -> 14
               [] fingerName = "ring" -> 15
               [] fingerName = "little" -> 15
               [] OTHER -> NoJoint
        v == IF fingerName \in {"ring", "little"} THEN 60 ELSE 30
    IN  /\ fingerName # "" => joint = j
        /\ \A i \in DOMAIN calls :
              /\ calls[i].op \in AdapterOps => (calls[i].joint = j /\ j # NoJoint)
              /\ calls[i].op \notin AdapterOps => calls[i].joint = NoJoint
              /\ calls[i].op = "setRefSpeed" => calls[i].arg = v

C4_Witness ==
    /\ fingerName = "ring"
    /\ \E i \in CallsOf("setRefSpeed") : calls[i].arg = 60 /\ calls[i].joint = 15
    /\ \E i \in CallsOf("positionMove") : calls[i].joint = 15

\* C5: with a finger option outside thumb, index, middle, ring, little the
\* session ends with exit code 2, the driver was never opened, no model was
\* created and no tick ran.
C5_UnknownFingerExit2 ==
    (pc = "done" /\ fingerName = "pinky") =>
        /\ exitCode = 2
        /\ opens = 0 /\ driver = "closed"
        /\ model = "unset"
        /\ ticks = 0

\* C6: the driver is opened at most once, and on every exit path after it was
\* opened it is closed before the session ends: it is closed once close has
\* returned and once main has returned.
C6_DriverReleased ==
    /\ opens <= 1
    /\ driver = "open" => opens = 1
    /\ pc \in {"closed", "done"} => driver = "closed"

C6_Witness ==
    /\ pc = "done"
    /\ opens = 1
    /\ model = "deleted"
    /\ driver = "closed"

\* calibrate was called and returned failure
CalibrationFailed == ~calibrate /\ node = "uncalibrated"

\* C7: if model.calibrate fails on the first tick the session terminates with
\* exit code 3: no positionMove is issued, the driver does not go on running
\* and the node is never queried.
C7_CalibrationFailureTerminates ==
    CalibrationFailed =>
        /\ cmds = <<>>
        /\ pc # "running"
        /\ CallsOf("getSensorsData") = {} /\ CallsOf("getOutput") = {}
        /\ pc = "done" => exitCode = 3

\* C8: a failed Joint I/O call (driver.open, getEncoder, positionMove) is
\* fatal: the driver does not go on running, the exit code is 4, and a tick
\* whose getEncoder failed issues no positionMove.
C8_IOFailureIsFatal ==
    /\ ioFailed => pc # "running"
    /\ (ioFailed /\ pc = "done") => exitCode = 4
    /\ \A i \in CallsOf("getEncoder") : ~calls[i].ok => CallsOf("positionMove") = {}

\* C9: a scanning tick whose getSensorsData failed emits no report line.
C9_SensorFailureSkipsReport ==
    \A i \in CallsOf("getSensorsData") : ~calls[i].ok => CallsOf("report") = {}

\* C10: whenever the node is queried (getSensorsData, getOutput) its
\* calibration state is ready, so getOutput never fails with NotCalibrated.
C10_NodeQueriedOnlyWhenReady ==
    \A i \in DOMAIN calls :
        calls[i].op \in {"getSensorsData", "getOutput"} =>
            (node = "ready" /\ (calls[i].op = "getOutput" => calls[i].ok))

----------------------------------------------------------------------------
(* Vocabulary of the claims about single ticks *)

\* the positions of the calls of op in a handler's calls cs
IdxOf(cs, op) == {i \in DOMAIN cs : cs[i].op = op}

\* every call of a in cs comes before every call of b
Ordered(cs, a, b) == \A i \in IdxOf(cs, a), j \in IdxOf(cs, b) : i < j

\* this step is a call of updateModule
IsTick == ticks' = ticks + 1

\* configure returned true
ConfigureSucceeded == model \in {"springy", "tactile"}

\* C11: after a successful configure, a shutdown at any tick boundary makes
\* close emit the model's property tree exactly once, after closing the
\* driver; the tree is emitted by nothing else, and once close has run no
\* joint command and no encoder read is issued any more.
C11_CloseEmitsTreeOnce ==
    /\ []((ConfigureSucceeded /\ pc \in {"closed", "done"}) =>
             /\ Cardinality(IdxOf(calls, "toProperty")) = 1
             /\ Cardinality(IdxOf(calls, "printModel")) = 1
             /\ Cardinality(IdxOf(calls, "driverClose")) = 1
             /\ Ordered(calls, "driverClose", "toProperty")
             /\ Ordered(calls, "toProperty", "printModel")
             /\ \A i \in DOMAIN calls : calls[i].op \notin AdapterOps
             /\ driver = "closed")
    /\ []((IdxOf(calls, "toProperty") # {} \/ IdxOf(calls, "printModel") # {}) =>
             (ConfigureSucceeded /\ pc \in {"closed", "done"}))
    /\ [][(pc \in {"closed", "done"}) => (calls' = calls /\ cmds' = cmds)]_vars

C11_Witness ==
    /\ pc = "done"
    /\ ticks = 3
    /\ Len(cmds) = 2
    /\ IdxOf(calls, "printModel") # {}

\* the place of a call in the order of a scanning tick
Rank(op) ==
    CASE op = "getNode" -> 0
      [] op = "getSensorsData" -> 1
      [] op = "getOutput" -> 2
      [] op = "report" -> 3
      [] op = "getEncoder" -> 4
      [] op = "positionMove" -> 5
      [] OTHER -> 6

\* C12: on a scanning tick the calls come in the order getSensorsData,
\* getOutput, report, getEncoder, positionMove, with exactly one getEncoder
\* and at most one positionMove; on the calibration tick calibrate comes
\* first and there is no sensor read, no report and no encoder read.
C12_TickOrder ==
    [][IsTick =>
         IF calibrate
         THEN /\ calls'[1].op = "calibrate"
              /\ \A i \in DOMAIN calls' :
                    calls'[i].op \notin {"getSensorsData", "getOutput", "report", "getEncoder"}
              /\ Cardinality(IdxOf(calls', "positionMove")) <= 1
         ELSE /\ \A i, j \in DOMAIN calls' :
                    i < j => Rank(calls'[i].op) < Rank(calls'[j].op)
              /\ \A i \in DOMAIN calls' : Rank(calls'[i].op) <= 5
              /\ Cardinality(IdxOf(calls', "getEncoder")) = 1
              /\ Cardinality(IdxOf(calls', "positionMove")) <= 1]_vars

C12_Witness ==
    /\ ticks = 2
    /\ Len(calls) = 6
    /\ calls[2].op = "getSensorsData"
    /\ calls[4].op = "report"
    /\ calls[5].op = "getEncoder"
    /\ calls[6].op = "positionMove"

\* C13: on a scanning tick that read fb, the target flips and a positionMove
\* to the new target is issued if and only if |target - fb| < 5 degrees; with
\* |target - fb| >= 5, also exactly 5, the target stays and nothing is moved.
C13_FlipIffNear ==
    [][(IsTick /\ ~calibrate) =>
         \A i \in IdxOf(calls', "getEncoder") :
            LET fb == calls'[i].arg
                target == IF val = "min" THEN min ELSE max
                other == IF val = "min" THEN max ELSE min
                near == target - fb < 5 * Scale /\ fb - target < 5 * Scale
            IN  IF near
                THEN /\ val' # val
                     /\ cmds' = Append(cmds, other)
                     /\ \E k \in IdxOf(calls', "positionMove") : calls'[k].arg = other
                ELSE /\ val' = val
                     /\ cmds' = cmds
                     /\ IdxOf(calls', "positionMove") = {}]_vars

C13_Witness ==
    /\ limits = <<0, 90>>
    /\ ticks = 2
    /\ ScannedWith(90 + 50)
    /\ val = "min"
    /\ cmds = <<90>>

\* C14: model.calibrate is called on the first tick, with the configured
\* finger name, and on no later tick; the calibrate flag is set exactly
\* until the first tick has run and never becomes set again.
C14_CalibrationOneShot ==
    /\ [](pc = "running" => (calibrate = (ticks = 0)))
    /\ [][~calibrate => ~calibrate']_vars
    /\ [][IsTick =>
            /\ (IdxOf(calls', "calibrate") # {}) = (ticks = 0)
            /\ Cardinality(IdxOf(calls', "calibrate")) <= 1
            /\ \A i \in IdxOf(calls', "calibrate") : calls'[i].finger = rf.finger]_vars

C14_Witness ==
    /\ ticks = 3
    /\ ~calibrate
    /\ node = "ready"
    /\ IdxOf(calls, "calibrate") = {}
    /\ pc = "running"

\* C15: reference acceleration and reference speed are each set once, on the
\* first tick, after calibrate returned and before the first positionMove;
\* no positionMove precedes them and no later tick sets them again.
C15_SpeedSetOnceBeforeMove ==
    /\ [](ticks = 0 => cmds = <<>>)
    /\ [][IsTick =>
            /\ Cardinality(IdxOf(calls', "setRefAcceleration")) = (IF ticks = 0 THEN 1 ELSE 0)
            /\ Cardinality(IdxOf(calls', "setRefSpeed")) = (IF ticks = 0 THEN 1 ELSE 0)
            /\ Ordered(calls', "calibrate", "setRefAcceleration")
            /\ Ordered(calls', "calibrate", "setRefSpeed")
            /\ Ordered(calls', "setRefAcceleration", "positionMove")
            /\ Ordered(calls', "setRefSpeed", "positionMove")]_vars

C15_Witness ==
    /\ ticks = 1
    /\ cmds = <<Lo>>
    /\ IdxOf(calls, "setRefAcceleration") = {2}
    /\ IdxOf(calls, "setRefSpeed") = {3}
    /\ IdxOf(calls, "positionMove") = {4}

\* C17: a scanning tick on which model.getNode finds no node reads no sensor
\* and emits no report, but still reads the encoder once and applies the flip
\* rule, and the session goes on.
C17_MissingNodeStillScans ==
    [][(IsTick /\ \E n \in IdxOf(calls', "getNode") : ~calls'[n].ok) =>
         /\ \A i \in DOMAIN calls' :
               calls'[i].op \notin {"getSensorsData", "getOutput", "report"}
         /\ Cardinality(IdxOf(calls', "getEncoder")) = 1
         /\ \A i \in IdxOf(calls', "getEncoder") :
               LET fb == calls'[i].arg
                   target == IF val = "min" THEN min ELSE max
                   near == target - fb < 5 * Scale /\ fb - target < 5 * Scale
               IN  /\ (val' # val) = near
                   /\ (IdxOf(calls', "positionMove") # {}) = near
         /\ pc' = "running"]_vars

C17_Witness ==
    /\ pc = "running"
    /\ \E n \in IdxOf(calls, "getNode") : ~calls[n].ok
    /\ IdxOf(calls, "positionMove") # {}
    /\ Len(cmds) = 3

\* a scanning tick of a running session
ScanStep == pc = "running" /\ pc' = "running" /\ ~calibrate

\* the encoder value the step's tick read is within 5 degrees of the target
\* that was current when the tick began
NearRead ==
    \E i \in IdxOf(calls', "getEncoder") :
       LET target == IF val = "min" THEN min ELSE max
       IN  target - calls'[i].arg < 5 * Scale /\ calls'[i].arg - target < 5 * Scale

\* the last handler commanded target x
Commanded(x) == \E i \in IdxOf(calls, "positionMove") : calls[i].arg = x

\* C16: if the session is never stopped and, again and again, a tick reads an
\* encoder value within 5 degrees of the current target, then lo is commanded
\* infinitely often and hi is commanded infinitely often; and a tick whose
\* encoder value is not within 5 degrees of the target commands nothing.
C16_ScanNeverSticks ==
    /\ ([]<><<ScanStep /\ NearRead>>_vars) =>
          ([]<>(pc = "running" /\ Commanded(Lo)) /\ []<>(pc = "running" /\ Commanded(Hi)))
    /\ [][(ScanStep /\ ~NearRead) => (IdxOf(calls', "positionMove") = {} /\ val' = val)]_vars

C16_Witness ==
    /\ pc = "running"
    /\ Len(cmds) = MaxTicks
    /\ cmds[1] = Hi
    /\ Commanded(Lo)

====
